---- MODULE Spec2Model ----
(***************************************************************************)
(* A model of the StreamPay contract (src/unnamed/part_003): the stream    *)
(* ledger, the subscription ledger, the withdrawable-balance table and the *)
(* platform fee.  One transaction is one call of an external function.  A  *)
(* function that pays out with `payable(x).transfer(v)` is split at each   *)
(* transfer: the payee's code runs there, may call back into the contract, *)
(* and may revert, which reverts the whole transaction.  Gas is not        *)
(* modelled.                                                               *)
(***************************************************************************)
EXTENDS Integers, Sequences, FiniteSets, TLC

VARIABLES
    streams,             \* mapping(uint256 => Stream)
    subscriptions,       \* mapping(uint256 => Subscription)
    userStreams,         \* mapping(address => uint256[]), sender's streams
    recipientStreams,    \* mapping(address => uint256[])
    userSubscriptions,   \* mapping(address => uint256[])
    balances,            \* mapping(address => uint256), withdrawable balances
    nextStreamId,
    nextSubscriptionId,
    platformFee,
    held,                \* address(this).balance
    now,                 \* block.timestamp
    status,              \* ReentrancyGuard's _status
    frame,               \* the external call in progress, stopped at a transfer
    saved,               \* the state the transaction in progress reverts to
    lastCall             \* how the last call ended: returned or reverted

ledger == <<streams, subscriptions, userStreams, recipientStreams,
            userSubscriptions, balances, nextStreamId, nextSubscriptionId,
            platformFee>>

vars == <<streams, subscriptions, userStreams, recipientStreams,
          userSubscriptions, balances, nextStreamId, nextSubscriptionId,
          platformFee, held, now, status, frame, saved, lastCall>>

----------------------------------------------------------------------------
(* Bounds of the model *)

MaxEntities == 2

MaxTime == 3

MaxBalance == 20

WordBits == 24

MaxUint == 2 ^ WordBits - 1

----------------------------------------------------------------------------
(* Accounts *)

Owner == "owner"

ZeroAddress == "0x0"

Accounts == {"owner", "alice", "bob", "carol"}

Addresses == Accounts \cup {ZeroAddress}

StreamIds == 1 .. MaxEntities

SubscriptionIds == 1 .. MaxEntities

----------------------------------------------------------------------------
(* Storage defaults: a mapping entry never written reads as zero *)

NoStream ==
    [id |-> 0, sender |-> ZeroAddress, recipient |-> ZeroAddress, deposit |-> 0,
     ratePerSecond |-> 0, startTime |-> 0, stopTime |-> 0,
     remainingBalance |-> 0, active |-> FALSE]

NoSubscription ==
    [id |-> 0, subscriber |-> ZeroAddress, provider |-> ZeroAddress,
     ratePerSecond |-> 0, lastPaymentTime |-> 0, active |-> FALSE]

InitialFee == 10

FeeDenominator == 10000

MaxFee == 1000

NOT_ENTERED == "NOT_ENTERED"

ENTERED == "ENTERED"

Snapshot ==
    [streams |-> streams, subscriptions |-> subscriptions,
     userStreams |-> userStreams, recipientStreams |-> recipientStreams,
     userSubscriptions |-> userSubscriptions, balances |-> balances,
     nextStreamId |-> nextStreamId, nextSubscriptionId |-> nextSubscriptionId,
     platformFee |-> platformFee, held |-> held]

NoSnapshot ==
    [streams |-> [i \in StreamIds |-> NoStream],
     subscriptions |-> [i \in SubscriptionIds |-> NoSubscription],
     userStreams |-> [a \in Addresses |-> <<>>],
     recipientStreams |-> [a \in Addresses |-> <<>>],
     userSubscriptions |-> [a \in Addresses |-> <<>>],
     balances |-> [a \in Addresses |-> 0],
     nextStreamId |-> 1, nextSubscriptionId |-> 1,
     platformFee |-> InitialFee, held |-> 0]

NoFrame ==
    [op |-> "none", id |-> 0, caller |-> ZeroAddress, to |-> ZeroAddress,
     amount |-> 0, then |-> "none", owed |-> 0]

NoCall == "none"

Init ==
    /\ streams = NoSnapshot.streams
    /\ subscriptions = NoSnapshot.subscriptions
    /\ userStreams = NoSnapshot.userStreams
    /\ recipientStreams = NoSnapshot.recipientStreams
    /\ userSubscriptions = NoSnapshot.userSubscriptions
    /\ balances = NoSnapshot.balances
    /\ nextStreamId = 1
    /\ nextSubscriptionId = 1
    /\ platformFee = InitialFee
    /\ held = 0
    /\ now = 0
    /\ status = NOT_ENTERED
    /\ frame = NoFrame
    /\ saved = NoSnapshot
    /\ lastCall = NoCall

----------------------------------------------------------------------------
(* Pure functions *)

\* A fee that rounds up instead of down.
FeeRoundedUp(gross, feeBps) ==
    (gross * feeBps + FeeDenominator - 1) \div FeeDenominator

Fee(gross, feeBps) == (gross * feeBps) \div FeeDenominator

\* A balanceOf that reports the whole deposit, not what remains of it, once
\* the stream is fully vested.
balanceOfWholeDeposit(stream, t) ==
    IF ~stream.active
    THEN [recipientBalance |-> 0, senderBalance |-> stream.remainingBalance]
    ELSE LET elapsedTime == IF t >= stream.stopTime
                            THEN stream.stopTime - stream.startTime
                            ELSE t - stream.startTime
             earned == elapsedTime * stream.ratePerSecond
         IN  IF earned >= stream.deposit
             THEN [recipientBalance |-> stream.deposit, senderBalance |-> 0]
             ELSE [recipientBalance |-> earned,
                   senderBalance |-> stream.deposit - earned]

balanceOf(stream, t) ==
    IF ~stream.active
    THEN [recipientBalance |-> 0, senderBalance |-> stream.remainingBalance]
    ELSE LET elapsedTime == IF t >= stream.stopTime
                            THEN stream.stopTime - stream.startTime
                            ELSE t - stream.startTime
             earned == elapsedTime * stream.ratePerSecond
         IN  IF earned >= stream.deposit
             THEN [recipientBalance |-> stream.remainingBalance, senderBalance |-> 0]
             ELSE [recipientBalance |-> earned,
                   senderBalance |-> stream.deposit - earned]

----------------------------------------------------------------------------
(* How a call ends *)

\* A revert: the call changes nothing.
Revert(op) ==
    /\ lastCall' = "reverted"
    /\ UNCHANGED <<ledger, held, now, status, frame, saved>>

\* A call that makes no transfer returns in the step that runs it.
Return(op) ==
    /\ lastCall' = "returned"
    /\ UNCHANGED <<now, status, frame, saved>>

\* payable(to).transfer(amount) inside a nonReentrant function: the guard is
\* held, the payee's code runs, and what is left of the function is `then`.
Transfer(op, id, caller, to, amount, then, owed) ==
    /\ frame' = [op |-> op, id |-> id, caller |-> caller, to |-> to,
                 amount |-> amount, then |-> then, owed |-> owed]
    /\ status' = ENTERED
    /\ saved' = Snapshot
    /\ UNCHANGED <<now, lastCall>>

\* The nonReentrant modifier: require(_status != ENTERED).
nonReentrant == status # ENTERED

\* The streams and subscriptions created so far; the model stops creating at
\* MaxEntities.
Created == (nextStreamId - 1) + (nextSubscriptionId - 1)

----------------------------------------------------------------------------
(* Streams *)

\* A createStream that does not require the deposit to be supplied.
createStreamOkUnderfunded(caller, recipient, duration, ratePerSecond, value) ==
    /\ recipient # ZeroAddress
    /\ recipient # caller
    /\ duration > 0
    /\ ratePerSecond > 0
    /\ ratePerSecond * duration <= MaxUint
    /\ now + duration <= MaxUint

\* A createStream whose multiplication wraps around instead of reverting.
createStreamOkUnchecked(caller, recipient, duration, ratePerSecond, value) ==
    /\ recipient # ZeroAddress
    /\ recipient # caller
    /\ duration > 0
    /\ ratePerSecond > 0
    /\ value >= (ratePerSecond * duration) % (MaxUint + 1)
    /\ now + duration <= MaxUint

createStreamOk(caller, recipient, duration, ratePerSecond, value) ==
    /\ recipient # ZeroAddress
    /\ recipient # caller
    /\ duration > 0
    /\ ratePerSecond > 0
    /\ ratePerSecond * duration <= MaxUint
    /\ value >= ratePerSecond * duration
    /\ now + duration <= MaxUint

\* A createStream that records the id under the sender only.
createStreamSenderIndexOnly(caller, recipient, duration, ratePerSecond, value) ==
    IF nonReentrant /\ createStreamOk(caller, recipient, duration, ratePerSecond, value)
    THEN LET deposit == ratePerSecond * duration
             streamId == nextStreamId
         IN  /\ Created < MaxEntities
             /\ nextStreamId' = nextStreamId + 1
             /\ streams' = [streams EXCEPT ![streamId] =
                    [id |-> streamId, sender |-> caller, recipient |-> recipient,
                     deposit |-> deposit, ratePerSecond |-> ratePerSecond,
                     startTime |-> now, stopTime |-> now + duration,
                     remainingBalance |-> deposit, active |-> TRUE]]
             /\ userStreams' = [userStreams EXCEPT ![caller] = Append(@, streamId)]
             /\ held' = held + value
             /\ UNCHANGED <<subscriptions, recipientStreams, userSubscriptions,
                            balances, nextSubscriptionId, platformFee>>
             /\ IF value > deposit
                THEN Transfer("createStream", streamId, caller, caller,
                              value - deposit, "done", 0)
                ELSE Return("createStream")
    ELSE Revert("createStream")

\* A createStream that keeps what is supplied above the deposit.
createStreamKeepsExcess(caller, recipient, duration, ratePerSecond, value) ==
    IF nonReentrant /\ createStreamOk(caller, recipient, duration, ratePerSecond, value)
    THEN LET deposit == ratePerSecond * duration
             streamId == nextStreamId
         IN  /\ Created < MaxEntities
             /\ nextStreamId' = nextStreamId + 1
             /\ streams' = [streams EXCEPT ![streamId] =
                    [id |-> streamId, sender |-> caller, recipient |-> recipient,
                     deposit |-> deposit, ratePerSecond |-> ratePerSecond,
                     startTime |-> now, stopTime |-> now + duration,
                     remainingBalance |-> deposit, active |-> TRUE]]
             /\ userStreams' = [userStreams EXCEPT ![caller] = Append(@, streamId)]
             /\ recipientStreams' =
                    [recipientStreams EXCEPT ![recipient] = Append(@, streamId)]
             /\ held' = held + value
             /\ UNCHANGED <<subscriptions, userSubscriptions, balances,
                            nextSubscriptionId, platformFee>>
             /\ Return("createStream")
    ELSE Revert("createStream")

createStream(caller, recipient, duration, ratePerSecond, value) ==
    IF nonReentrant /\ createStreamOk(caller, recipient, duration, ratePerSecond, value)
    THEN LET deposit == ratePerSecond * duration
             streamId == nextStreamId
         IN  /\ Created < MaxEntities
             /\ nextStreamId' = nextStreamId + 1
             /\ streams' = [streams EXCEPT ![streamId] =
                    [id |-> streamId, sender |-> caller, recipient |-> recipient,
                     deposit |-> deposit, ratePerSecond |-> ratePerSecond,
                     startTime |-> now, stopTime |-> now + duration,
                     remainingBalance |-> deposit, active |-> TRUE]]
             /\ userStreams' = [userStreams EXCEPT ![caller] = Append(@, streamId)]
             /\ recipientStreams' =
                    [recipientStreams EXCEPT ![recipient] = Append(@, streamId)]
             /\ held' = held + value
             /\ UNCHANGED <<subscriptions, userSubscriptions, balances,
                            nextSubscriptionId, platformFee>>
             /\ IF value > deposit
                THEN Transfer("createStream", streamId, caller, caller,
                              value - deposit, "done", 0)
                ELSE Return("createStream")
    ELSE Revert("createStream")

withdrawFromStreamOk(streamId, caller) ==
    LET stream == streams[streamId]
        recipientBalance == balanceOf(stream, now).recipientBalance
    IN  /\ stream.recipient = caller
        /\ stream.active
        /\ recipientBalance > 0
        /\ recipientBalance * platformFee <= MaxUint
        /\ stream.remainingBalance >= recipientBalance
        /\ balances[Owner] + Fee(recipientBalance, platformFee) <= MaxUint

\* A withdrawFromStream that deactivates the stream whatever is left in it.
withdrawFromStreamAlwaysDeactivates(streamId, caller) ==
    IF nonReentrant /\ withdrawFromStreamOk(streamId, caller)
    THEN LET stream == streams[streamId]
             recipientBalance == balanceOf(stream, now).recipientBalance
             fee == Fee(recipientBalance, platformFee)
             netAmount == recipientBalance - fee
             remaining == stream.remainingBalance - recipientBalance
         IN  /\ streams' = [streams EXCEPT ![streamId] =
                    [@ EXCEPT !.remainingBalance = remaining,
                              !.active = FALSE]]
             /\ balances' = [balances EXCEPT ![Owner] = @ + fee]
             /\ UNCHANGED <<subscriptions, userStreams, recipientStreams,
                            userSubscriptions, nextStreamId, nextSubscriptionId,
                            platformFee, held>>
             /\ Transfer("withdrawFromStream", streamId, caller, caller,
                         netAmount, "done", 0)
    ELSE Revert("withdrawFromStream")

\* A withdrawFromStream that never deactivates the stream.
withdrawFromStreamStaysActive(streamId, caller) ==
    IF nonReentrant /\ withdrawFromStreamOk(streamId, caller)
    THEN LET stream == streams[streamId]
             recipientBalance == balanceOf(stream, now).recipientBalance
             fee == Fee(recipientBalance, platformFee)
             netAmount == recipientBalance - fee
             remaining == stream.remainingBalance - recipientBalance
         IN  /\ streams' = [streams EXCEPT ![streamId] =
                    [@ EXCEPT !.remainingBalance = remaining]]
             /\ balances' = [balances EXCEPT ![Owner] = @ + fee]
             /\ UNCHANGED <<subscriptions, userStreams, recipientStreams,
                            userSubscriptions, nextStreamId, nextSubscriptionId,
                            platformFee, held>>
             /\ Transfer("withdrawFromStream", streamId, caller, caller,
                         netAmount, "done", 0)
    ELSE Revert("withdrawFromStream")

\* A withdrawFromStream that restarts the accrual at the time of the
\* withdrawal.
withdrawFromStreamRestartsAccrual(streamId, caller) ==
    IF nonReentrant /\ withdrawFromStreamOk(streamId, caller)
    THEN LET stream == streams[streamId]
             recipientBalance == balanceOf(stream, now).recipientBalance
             fee == Fee(recipientBalance, platformFee)
             netAmount == recipientBalance - fee
             remaining == stream.remainingBalance - recipientBalance
         IN  /\ streams' = [streams EXCEPT ![streamId] =
                    [@ EXCEPT !.remainingBalance = remaining,
                              !.startTime = now,
                              !.active = ~(now >= stream.stopTime \/ remaining = 0)]]
             /\ balances' = [balances EXCEPT ![Owner] = @ + fee]
             /\ UNCHANGED <<subscriptions, userStreams, recipientStreams,
                            userSubscriptions, nextStreamId, nextSubscriptionId,
                            platformFee, held>>
             /\ Transfer("withdrawFromStream", streamId, caller, caller,
                         netAmount, "done", 0)
    ELSE Revert("withdrawFromStream")

withdrawFromStream(streamId, caller) ==
    IF nonReentrant /\ withdrawFromStreamOk(streamId, caller)
    THEN LET stream == streams[streamId]
             recipientBalance == balanceOf(stream, now).recipientBalance
             fee == Fee(recipientBalance, platformFee)
             netAmount == recipientBalance - fee
             remaining == stream.remainingBalance - recipientBalance
         IN  /\ streams' = [streams EXCEPT ![streamId] =
                    [@ EXCEPT !.remainingBalance = remaining,
                              !.active = ~(now >= stream.stopTime \/ remaining = 0)]]
             /\ balances' = [balances EXCEPT ![Owner] = @ + fee]
             /\ UNCHANGED <<subscriptions, userStreams, recipientStreams,
                            userSubscriptions, nextStreamId, nextSubscriptionId,
                            platformFee, held>>
             /\ Transfer("withdrawFromStream", streamId, caller, caller,
                         netAmount, "done", 0)
    ELSE Revert("withdrawFromStream")

\* A cancelStream that does not require the stream to be active.
cancelStreamOkInactiveToo(streamId, caller) ==
    LET stream == streams[streamId]
    IN  stream.sender = caller \/ stream.recipient = caller

cancelStreamOk(streamId, caller) ==
    LET stream == streams[streamId]
        recipientBalance == balanceOf(stream, now).recipientBalance
    IN  /\ stream.sender = caller \/ stream.recipient = caller
        /\ stream.active
        /\ recipientBalance * platformFee <= MaxUint
        /\ balances[Owner] + Fee(recipientBalance, platformFee) <= MaxUint

\* A cancelStream that takes the platform fee from the sender's refund too.
cancelStreamFeeOnRefund(streamId, caller) ==
    IF nonReentrant /\ cancelStreamOk(streamId, caller)
    THEN LET stream == streams[streamId]
             b == balanceOf(stream, now)
             fee == Fee(b.recipientBalance, platformFee)
             netAmount == b.recipientBalance - fee
             refundFee == Fee(b.senderBalance, platformFee)
             refund == b.senderBalance - refundFee
         IN  /\ streams' = [streams EXCEPT ![streamId] =
                    [@ EXCEPT !.active = FALSE, !.remainingBalance = 0]]
             /\ UNCHANGED <<subscriptions, userStreams, recipientStreams,
                            userSubscriptions, nextStreamId, nextSubscriptionId,
                            platformFee, held>>
             /\ IF b.recipientBalance > 0
                THEN /\ balances' = [balances EXCEPT ![Owner] = @ + fee + refundFee]
                     /\ Transfer("cancelStream", streamId, caller, stream.recipient,
                                 netAmount, "paySender", refund)
                ELSE /\ balances' = [balances EXCEPT ![Owner] = @ + refundFee]
                     /\ IF b.senderBalance > 0
                        THEN Transfer("cancelStream", streamId, caller,
                                      stream.sender, refund, "done", 0)
                        ELSE Return("cancelStream")
    ELSE Revert("cancelStream")

cancelStream(streamId, caller) ==
    IF nonReentrant /\ cancelStreamOk(streamId, caller)
    THEN LET stream == streams[streamId]
             b == balanceOf(stream, now)
             fee == Fee(b.recipientBalance, platformFee)
             netAmount == b.recipientBalance - fee
         IN  /\ streams' = [streams EXCEPT ![streamId] =
                    [@ EXCEPT !.active = FALSE, !.remainingBalance = 0]]
             /\ UNCHANGED <<subscriptions, userStreams, recipientStreams,
                            userSubscriptions, nextStreamId, nextSubscriptionId,
                            platformFee, held>>
             /\ IF b.recipientBalance > 0
                THEN /\ balances' = [balances EXCEPT ![Owner] = @ + fee]
                     /\ Transfer("cancelStream", streamId, caller, stream.recipient,
                                 netAmount, "paySender", b.senderBalance)
                ELSE /\ UNCHANGED balances
                     /\ IF b.senderBalance > 0
                        THEN Transfer("cancelStream", streamId, caller,
                                      stream.sender, b.senderBalance, "done", 0)
                        ELSE Return("cancelStream")
    ELSE Revert("cancelStream")

----------------------------------------------------------------------------
(* Subscriptions *)

createSubscriptionOk(caller, provider, ratePerSecond, value) ==
    /\ provider # ZeroAddress
    /\ provider # caller
    /\ ratePerSecond > 0
    /\ value > 0
    /\ balances[caller] + value <= MaxUint

\* A createSubscription that does not advance the id counter.
createSubscriptionSameId(caller, provider, ratePerSecond, value) ==
    IF nonReentrant /\ createSubscriptionOk(caller, provider, ratePerSecond, value)
    THEN LET subscriptionId == nextSubscriptionId
         IN  /\ Created < MaxEntities
             /\ subscriptions' = [subscriptions EXCEPT ![subscriptionId] =
                    [id |-> subscriptionId, subscriber |-> caller,
                     provider |-> provider, ratePerSecond |-> ratePerSecond,
                     lastPaymentTime |-> now, active |-> TRUE]]
             /\ userSubscriptions' =
                    [userSubscriptions EXCEPT ![caller] = Append(@, subscriptionId)]
             /\ balances' = [balances EXCEPT ![caller] = @ + value]
             /\ held' = held + value
             /\ UNCHANGED <<streams, userStreams, recipientStreams, nextStreamId,
                            nextSubscriptionId, platformFee>>
             /\ Return("createSubscription")
    ELSE Revert("createSubscription")

createSubscription(caller, provider, ratePerSecond, value) ==
    IF nonReentrant /\ createSubscriptionOk(caller, provider, ratePerSecond, value)
    THEN LET subscriptionId == nextSubscriptionId
         IN  /\ Created < MaxEntities
             /\ nextSubscriptionId' = nextSubscriptionId + 1
             /\ subscriptions' = [subscriptions EXCEPT ![subscriptionId] =
                    [id |-> subscriptionId, subscriber |-> caller,
                     provider |-> provider, ratePerSecond |-> ratePerSecond,
                     lastPaymentTime |-> now, active |-> TRUE]]
             /\ userSubscriptions' =
                    [userSubscriptions EXCEPT ![caller] = Append(@, subscriptionId)]
             /\ balances' = [balances EXCEPT ![caller] = @ + value]
             /\ held' = held + value
             /\ UNCHANGED <<streams, userStreams, recipientStreams, nextStreamId,
                            platformFee>>
             /\ Return("createSubscription")
    ELSE Revert("createSubscription")

\* A payment that counts the second of the call as elapsed too.
pendingPaymentInclusive(sub, t) == (t - sub.lastPaymentTime + 1) * sub.ratePerSecond

\* elapsedTime * sub.ratePerSecond
pendingPayment(sub, t) == (t - sub.lastPaymentTime) * sub.ratePerSecond

processSubscriptionPaymentOk(subscriptionId) ==
    LET sub == subscriptions[subscriptionId]
        payment == pendingPayment(sub, now)
    IN  /\ sub.active
        /\ payment <= MaxUint
        /\ balances[sub.subscriber] >= payment
        /\ payment * platformFee <= MaxUint

\* A processSubscriptionPayment that, when the subscriber's balance does not
\* cover the payment, writes the interval off instead of reverting.
processSubscriptionPaymentWritesOff(subscriptionId, caller) ==
    IF nonReentrant /\ processSubscriptionPaymentOk(subscriptionId)
    THEN LET sub == subscriptions[subscriptionId]
             payment == pendingPayment(sub, now)
             fee == Fee(payment, platformFee)
             netPayment == payment - fee
             debited == [balances EXCEPT ![sub.subscriber] = @ - payment]
         IN  /\ debited[Owner] + fee <= MaxUint
             /\ balances' = [debited EXCEPT ![Owner] = @ + fee]
             /\ UNCHANGED <<streams, subscriptions, userStreams, recipientStreams,
                            userSubscriptions, nextStreamId, nextSubscriptionId,
                            platformFee, held>>
             /\ Transfer("processSubscriptionPayment", subscriptionId, caller,
                         sub.provider, netPayment, "setLastPaymentTime", 0)
    ELSE IF nonReentrant /\ subscriptions[subscriptionId].active
         THEN /\ subscriptions' =
                     [subscriptions EXCEPT ![subscriptionId].lastPaymentTime = now]
              /\ UNCHANGED <<streams, userStreams, recipientStreams,
                             userSubscriptions, balances, nextStreamId,
                             nextSubscriptionId, platformFee, held>>
              /\ Return("processSubscriptionPayment")
         ELSE Revert("processSubscriptionPayment")

\* A processSubscriptionPayment that pays the provider without drawing on
\* the subscriber's balance.
processSubscriptionPaymentNoDebit(subscriptionId, caller) ==
    IF nonReentrant /\ processSubscriptionPaymentOk(subscriptionId)
    THEN LET sub == subscriptions[subscriptionId]
             payment == pendingPayment(sub, now)
             fee == Fee(payment, platformFee)
             netPayment == payment - fee
         IN  /\ balances[Owner] + fee <= MaxUint
             /\ balances' = [balances EXCEPT ![Owner] = @ + fee]
             /\ UNCHANGED <<streams, subscriptions, userStreams, recipientStreams,
                            userSubscriptions, nextStreamId, nextSubscriptionId,
                            platformFee, held>>
             /\ Transfer("processSubscriptionPayment", subscriptionId, caller,
                         sub.provider, netPayment, "setLastPaymentTime", 0)
    ELSE Revert("processSubscriptionPayment")

\* A processSubscriptionPayment that only the subscriber or the provider may
\* call.
processSubscriptionPaymentByParty(subscriptionId, caller) ==
    IF /\ nonReentrant
       /\ caller \in {subscriptions[subscriptionId].subscriber,
                      subscriptions[subscriptionId].provider}
       /\ processSubscriptionPaymentOk(subscriptionId)
    THEN LET sub == subscriptions[subscriptionId]
             payment == pendingPayment(sub, now)
             fee == Fee(payment, platformFee)
             netPayment == payment - fee
             debited == [balances EXCEPT ![sub.subscriber] = @ - payment]
         IN  /\ debited[Owner] + fee <= MaxUint
             /\ balances' = [debited EXCEPT ![Owner] = @ + fee]
             /\ UNCHANGED <<streams, subscriptions, userStreams, recipientStreams,
                            userSubscriptions, nextStreamId, nextSubscriptionId,
                            platformFee, held>>
             /\ Transfer("processSubscriptionPayment", subscriptionId, caller,
                         sub.provider, netPayment, "setLastPaymentTime", 0)
    ELSE Revert("processSubscriptionPayment")

processSubscriptionPayment(subscriptionId, caller) ==
    IF nonReentrant /\ processSubscriptionPaymentOk(subscriptionId)
    THEN LET sub == subscriptions[subscriptionId]
             payment == pendingPayment(sub, now)
             fee == Fee(payment, platformFee)
             netPayment == payment - fee
             debited == [balances EXCEPT ![sub.subscriber] = @ - payment]
         IN  /\ debited[Owner] + fee <= MaxUint
             /\ balances' = [debited EXCEPT ![Owner] = @ + fee]
             /\ UNCHANGED <<streams, subscriptions, userStreams, recipientStreams,
                            userSubscriptions, nextStreamId, nextSubscriptionId,
                            platformFee, held>>
             /\ Transfer("processSubscriptionPayment", subscriptionId, caller,
                         sub.provider, netPayment, "setLastPaymentTime", 0)
    ELSE Revert("processSubscriptionPayment")

\* A cancelSubscription that any account may call.
cancelSubscriptionOkAnyCaller(subscriptionId, caller) ==
    LET sub == subscriptions[subscriptionId]
        payment == pendingPayment(sub, now)
    IN  /\ sub.active
        /\ balances[sub.subscriber] > 0 => payment <= MaxUint
        /\ (payment > 0 /\ balances[sub.subscriber] >= payment) =>
               payment * platformFee <= MaxUint

cancelSubscriptionOk(subscriptionId, caller) ==
    LET sub == subscriptions[subscriptionId]
        payment == pendingPayment(sub, now)
    IN  /\ sub.subscriber = caller \/ sub.provider = caller
        /\ sub.active
        /\ balances[sub.subscriber] > 0 => payment <= MaxUint
        /\ (payment > 0 /\ balances[sub.subscriber] >= payment) =>
               payment * platformFee <= MaxUint

cancelSubscription(subscriptionId, caller) ==
    IF nonReentrant /\ cancelSubscriptionOk(subscriptionId, caller)
    THEN LET sub == subscriptions[subscriptionId]
             payment == pendingPayment(sub, now)
             fee == Fee(payment, platformFee)
             netPayment == payment - fee
             debited == [balances EXCEPT ![sub.subscriber] = @ - payment]
         IN  IF balances[sub.subscriber] > 0 /\ payment > 0
                /\ balances[sub.subscriber] >= payment
             THEN /\ debited[Owner] + fee <= MaxUint
                  /\ balances' = [debited EXCEPT ![Owner] = @ + fee]
                  /\ UNCHANGED <<streams, subscriptions, userStreams,
                                 recipientStreams, userSubscriptions, nextStreamId,
                                 nextSubscriptionId, platformFee, held>>
                  /\ Transfer("cancelSubscription", subscriptionId, caller,
                              sub.provider, netPayment, "deactivate", 0)
             ELSE /\ subscriptions' =
                         [subscriptions EXCEPT ![subscriptionId].active = FALSE]
                  /\ UNCHANGED <<streams, userStreams, recipientStreams,
                                 userSubscriptions, balances, nextStreamId,
                                 nextSubscriptionId, platformFee, held>>
                  /\ Return("cancelSubscription")
    ELSE Revert("cancelSubscription")

\* A topUpSubscription that does not require the subscription to be active.
topUpSubscriptionOkInactiveToo(subscriptionId, caller, value) ==
    LET sub == subscriptions[subscriptionId]
    IN  /\ sub.subscriber = caller
        /\ value > 0
        /\ balances[caller] + value <= MaxUint

topUpSubscriptionOk(subscriptionId, caller, value) ==
    LET sub == subscriptions[subscriptionId]
    IN  /\ sub.subscriber = caller
        /\ sub.active
        /\ value > 0
        /\ balances[caller] + value <= MaxUint

\* No nonReentrant modifier.
topUpSubscription(subscriptionId, caller, value) ==
    IF topUpSubscriptionOk(subscriptionId, caller, value)
    THEN /\ balances' = [balances EXCEPT ![caller] = @ + value]
         /\ held' = held + value
         /\ UNCHANGED <<streams, subscriptions, userStreams, recipientStreams,
                        userSubscriptions, nextStreamId, nextSubscriptionId,
                        platformFee>>
         /\ Return("topUpSubscription")
    ELSE Revert("topUpSubscription")

----------------------------------------------------------------------------
(* Balance withdrawal and administration *)

withdrawOk(caller) == balances[caller] > 0

\* A withdraw that pays the caller's balance out and leaves the entry as it is.
withdrawLeavesEntry(caller) ==
    IF nonReentrant /\ withdrawOk(caller)
    THEN /\ UNCHANGED <<streams, subscriptions, userStreams, recipientStreams,
                        userSubscriptions, balances, nextStreamId,
                        nextSubscriptionId, platformFee, held>>
         /\ Transfer("withdraw", 0, caller, caller, balances[caller], "done", 0)
    ELSE Revert("withdraw")

withdraw(caller) ==
    IF nonReentrant /\ withdrawOk(caller)
    THEN /\ balances' = [balances EXCEPT ![caller] = 0]
         /\ UNCHANGED <<streams, subscriptions, userStreams, recipientStreams,
                        userSubscriptions, nextStreamId, nextSubscriptionId,
                        platformFee, held>>
         /\ Transfer("withdraw", 0, caller, caller, balances[caller], "done", 0)
    ELSE Revert("withdraw")

\* A setPlatformFee whose ceiling is exclusive.
setPlatformFeeOkBelowCeiling(caller, newFee) ==
    /\ caller = Owner
    /\ newFee < MaxFee

setPlatformFeeOk(caller, newFee) ==
    /\ caller = Owner
    /\ newFee <= MaxFee

\* A setPlatformFee that writes off the fees credited at the old rate.
setPlatformFeeWritesOffFees(caller, newFee) ==
    IF setPlatformFeeOk(caller, newFee)
    THEN /\ platformFee' = newFee
         /\ balances' = [balances EXCEPT ![Owner] = 0]
         /\ UNCHANGED <<streams, subscriptions, userStreams, recipientStreams,
                        userSubscriptions, nextStreamId,
                        nextSubscriptionId, held>>
         /\ Return("setPlatformFee")
    ELSE Revert("setPlatformFee")

\* onlyOwner, and no nonReentrant modifier.
setPlatformFee(caller, newFee) ==
    IF setPlatformFeeOk(caller, newFee)
    THEN /\ platformFee' = newFee
         /\ UNCHANGED <<streams, subscriptions, userStreams, recipientStreams,
                        userSubscriptions, balances, nextStreamId,
                        nextSubscriptionId, held>>
         /\ Return("setPlatformFee")
    ELSE Revert("setPlatformFee")

----------------------------------------------------------------------------
(* The end of a transfer *)

\* The function in progress returns: the guard is released.
Finish ==
    /\ frame' = NoFrame
    /\ status' = NOT_ENTERED
    /\ saved' = NoSnapshot
    /\ lastCall' = "returned"
    /\ UNCHANGED now

\* The payee accepted the value: the function goes on after the transfer.
TransferReturns ==
    /\ frame # NoFrame
    /\ held >= frame.amount
    /\ held' = held - frame.amount
    /\ CASE frame.then = "done" ->
              /\ UNCHANGED ledger
              /\ Finish
         [] frame.then = "paySender" ->
              /\ UNCHANGED ledger
              /\ IF frame.owed > 0
                 THEN /\ frame' = [frame EXCEPT !.to = streams[frame.id].sender,
                                                !.amount = frame.owed,
                                                !.then = "done", !.owed = 0]
                      /\ UNCHANGED <<now, status, saved, lastCall>>
                 ELSE Finish
         [] frame.then = "setLastPaymentTime" ->
              /\ subscriptions' =
                     [subscriptions EXCEPT ![frame.id].lastPaymentTime = now]
              /\ UNCHANGED <<streams, userStreams, recipientStreams,
                             userSubscriptions, balances, nextStreamId,
                             nextSubscriptionId, platformFee>>
              /\ Finish
         [] frame.then = "deactivate" ->
              /\ subscriptions' = [subscriptions EXCEPT ![frame.id].active = FALSE]
              /\ UNCHANGED <<streams, userStreams, recipientStreams,
                             userSubscriptions, balances, nextStreamId,
                             nextSubscriptionId, platformFee>>
              /\ Finish

\* The transfer fails (the payee's code reverts, or the contract holds less
\* than the amount): the whole transaction is undone.
TransferReverts ==
    /\ frame # NoFrame
    /\ streams' = saved.streams
    /\ subscriptions' = saved.subscriptions
    /\ userStreams' = saved.userStreams
    /\ recipientStreams' = saved.recipientStreams
    /\ userSubscriptions' = saved.userSubscriptions
    /\ balances' = saved.balances
    /\ nextStreamId' = saved.nextStreamId
    /\ nextSubscriptionId' = saved.nextSubscriptionId
    /\ platformFee' = saved.platformFee
    /\ held' = saved.held
    /\ frame' = NoFrame
    /\ status' = NOT_ENTERED
    /\ saved' = NoSnapshot
    /\ lastCall' = "reverted"
    /\ UNCHANGED now

\* Time passes between transactions.
TickBy(seconds, horizon) ==
    /\ frame = NoFrame
    /\ now + seconds <= horizon
    /\ now' = now + seconds
    /\ UNCHANGED <<ledger, held, status, frame, saved, lastCall>>

----------------------------------------------------------------------------
(* The calls made: callers and arguments.  Each argument set holds the     *)
(* accepted arguments and one rejected tuple per require.                  *)

StreamSenders == {"alice"}

Subscribers == {"bob"}

\* <<recipient, duration, ratePerSecond, msg.value - deposit>>
StreamArgs ==
    {<<"bob", 2, 15, 0>>, <<"bob", 2, 15, 1>>, <<"bob", 2, 15, -1>>,
     <<ZeroAddress, 2, 15, 0>>, <<"alice", 2, 15, 0>>, <<"bob", 0, 15, 0>>,
     <<"bob", 2, 0, 0>>, <<"bob", 2, MaxUint, -MaxUint>>}

\* <<provider, ratePerSecond, msg.value>>
SubscriptionArgs ==
    {<<"alice", 5, 10>>, <<ZeroAddress, 5, 10>>, <<"bob", 5, 10>>,
     <<"alice", 0, 10>>, <<"alice", 5, 0>>}

TopUpValues == {0, 10}

FeeValues == {MaxFee, MaxFee + 1}

\* Who can be msg.sender: at top level the accounts `who`; during a transfer
\* the payee, whose code is running.
Callers(who) == IF frame = NoFrame THEN who ELSE {frame.to}

CreateStream ==
    \E caller \in Callers(StreamSenders), a \in StreamArgs :
        createStream(caller, a[1], a[2], a[3], a[3] * a[2] + a[4])

WithdrawFromStream ==
    \E streamId \in StreamIds, caller \in Callers(Accounts) :
        withdrawFromStream(streamId, caller)

CancelStream ==
    \E streamId \in StreamIds, caller \in Callers(Accounts) :
        cancelStream(streamId, caller)

CreateSubscription ==
    \E caller \in Callers(Subscribers), a \in SubscriptionArgs :
        /\ balances[caller] + a[3] <= MaxBalance
        /\ createSubscription(caller, a[1], a[2], a[3])

ProcessSubscriptionPayment ==
    \E subscriptionId \in SubscriptionIds, caller \in Callers(Accounts) :
        processSubscriptionPayment(subscriptionId, caller)

CancelSubscription ==
    \E subscriptionId \in SubscriptionIds, caller \in Callers(Accounts) :
        cancelSubscription(subscriptionId, caller)

TopUpSubscription ==
    \E subscriptionId \in SubscriptionIds, caller \in Callers(Accounts),
       value \in TopUpValues :
        /\ balances[caller] + value <= MaxBalance
        /\ topUpSubscription(subscriptionId, caller, value)

Withdraw == \E caller \in Callers(Accounts) : withdraw(caller)

SetPlatformFee ==
    \E caller \in Callers(Accounts), newFee \in FeeValues :
        setPlatformFee(caller, newFee)

Tick == TickBy(1, MaxTime)

Next ==
    \/ CreateStream
    \/ WithdrawFromStream
    \/ CancelStream
    \/ CreateSubscription
    \/ ProcessSubscriptionPayment
    \/ CancelSubscription
    \/ TopUpSubscription
    \/ Withdraw
    \/ SetPlatformFee
    \/ TransferReturns
    \/ TransferReverts
    \/ Tick

Spec == Init /\ [][Next]_vars

\* The stream ledger alone.
NextStreams ==
    \/ CreateStream
    \/ WithdrawFromStream
    \/ CancelStream
    \/ Withdraw
    \/ SetPlatformFee
    \/ TransferReturns
    \/ TransferReverts
    \/ Tick

SpecStreams == Init /\ [][NextStreams]_vars

\* The subscription ledger alone.
NextSubscriptions ==
    \/ CreateSubscription
    \/ ProcessSubscriptionPayment
    \/ CancelSubscription
    \/ TopUpSubscription
    \/ Withdraw
    \/ SetPlatformFee
    \/ TransferReturns
    \/ TransferReverts
    \/ Tick

SpecSubscriptions == Init /\ [][NextSubscriptions]_vars

----------------------------------------------------------------------------
(* The worked example of the stream ledger: 3600 units over 3600 seconds,  *)
(* observed every 900 seconds.                                             *)

Example == [duration |-> 3600, ratePerSecond |-> 1, step |-> 900]

ExampleSteps == 5

ExampleStreams == 1

ExampleCreateStream ==
    \E caller \in Callers(StreamSenders) :
        /\ nextStreamId <= ExampleStreams
        /\ createStream(caller, "bob", Example.duration, Example.ratePerSecond,
                        Example.ratePerSecond * Example.duration)

ExampleTick == TickBy(Example.step, ExampleSteps * Example.step)

NextExample ==
    \/ ExampleCreateStream
    \/ WithdrawFromStream
    \/ CancelStream
    \/ Withdraw
    \/ SetPlatformFee
    \/ TransferReturns
    \/ TransferReverts
    \/ ExampleTick

SpecExample == Init /\ [][NextExample]_vars

----------------------------------------------------------------------------
(* The worked example of the subscription ledger: rate 5, funded with 100, *)
(* settled after 10 seconds and again 9 seconds later.                     *)

\* The times of the example: the two settlements, and a later time at which
\* the 5 left no longer cover what has accrued.
SubscriptionExample ==
    [ratePerSecond |-> 5, funding |-> 100, times |-> {10, 19, 21}, last |-> 21]

ExampleSubscriptions == 1

ExampleCreateSubscription ==
    \E caller \in Callers(Subscribers) :
        /\ nextSubscriptionId <= ExampleSubscriptions
        /\ createSubscription(caller, "alice", SubscriptionExample.ratePerSecond,
                              SubscriptionExample.funding)

ExampleSecond ==
    \E t \in SubscriptionExample.times :
        /\ t > now
        /\ TickBy(t - now, SubscriptionExample.last)

NextSubscriptionExample ==
    \/ ExampleCreateSubscription
    \/ ProcessSubscriptionPayment
    \/ CancelSubscription
    \/ TopUpSubscription
    \/ Withdraw
    \/ SetPlatformFee
    \/ TransferReturns
    \/ TransferReverts
    \/ ExampleSecond

SpecSubscriptionExample == Init /\ [][NextSubscriptionExample]_vars

----------------------------------------------------------------------------
(* Properties *)

Exists(streamId) == streams[streamId].id # 0

\* The step is the start of `op` on entity `id`: its requires passed, its
\* writes are made and its first transfer is under way.
Starts(op, id) == frame = NoFrame /\ frame' # NoFrame /\ frame'.op = op /\ frame'.id = id

\* The value credited to the platform account's balance entry by the step.
FeeCredited == balances'[Owner] - balances[Owner]

\* C1: for every active stream, between transactions, the two shares
\* balanceOf reports add up to the stream's remainingBalance.
C1_SharesSumToRemaining ==
    \A streamId \in StreamIds :
        (frame = NoFrame /\ streams[streamId].active) =>
            LET b == balanceOf(streams[streamId], now)
            IN  b.recipientBalance + b.senderBalance
                    = streams[streamId].remainingBalance

\* The case of the example: a fresh stream of 3600 at rate 1, half way,
\* with the fee at 10 basis points, and the recipient withdrawing.
ExampleWithdrawal(streamId) ==
    /\ Starts("withdrawFromStream", streamId)
    /\ streams[streamId].deposit = 3600
    /\ streams[streamId].ratePerSecond = 1
    /\ streams[streamId].remainingBalance = 3600
    /\ now = streams[streamId].startTime + 1800
    /\ platformFee = 10

\* C2 as stated: the withdrawal of the example pays the recipient 1798 and
\* credits 2 to the platform account.
C2_ExamplePays1798 ==
    [][\A streamId \in StreamIds :
         ExampleWithdrawal(streamId) =>
            /\ balanceOf(streams[streamId], now)
                   = [recipientBalance |-> 1800, senderBalance |-> 1800]
            /\ frame'.to = streams[streamId].recipient
            /\ frame'.amount = 1798
            /\ FeeCredited = 2
            /\ streams'[streamId].remainingBalance = 1800
            /\ streams'[streamId].active]_vars

\* C2 amended: the withdrawal of the example pays the recipient 1799 and
\* credits 1 to the platform account (floor(1800 * 10 / 10000) = 1); the
\* stream keeps remainingBalance 1800 and stays active.
C2_ExamplePays1799 ==
    [][\A streamId \in StreamIds :
         ExampleWithdrawal(streamId) =>
            /\ balanceOf(streams[streamId], now)
                   = [recipientBalance |-> 1800, senderBalance |-> 1800]
            /\ frame'.to = streams[streamId].recipient
            /\ frame'.amount = 1799
            /\ FeeCredited = 1
            /\ streams'[streamId].remainingBalance = 1800
            /\ streams'[streamId].active]_vars

C2_Witness ==
    /\ frame.op = "withdrawFromStream"
    /\ saved.streams[frame.id].remainingBalance = 3600
    /\ saved.platformFee = 10
    /\ now = streams[frame.id].startTime + 1800
    /\ frame.amount = 1799
    /\ streams[frame.id].remainingBalance = 1800

\* C3: a cancelStream with (r, s) = balanceOf at the call deactivates the
\* stream and zeroes its remainingBalance, pays the recipient
\* r - floor(r * fee / 10000), credits floor(r * fee / 10000) to the platform
\* account, and then pays the sender exactly s, crediting nothing more; in
\* the example, cancelled at start + 900, the recipient gets 900 and the
\* sender 2700.
C3_CancelSplit ==
    [][\A streamId \in StreamIds :
         /\ (frame = NoFrame /\ frame' # NoFrame /\ frame'.op = "cancelStream"
               /\ frame'.id = streamId) =>
              LET stream == streams[streamId]
                  b == balanceOf(stream, now)
                  fee == (b.recipientBalance * platformFee) \div 10000
              IN  /\ ~streams'[streamId].active
                  /\ streams'[streamId].remainingBalance = 0
                  /\ FeeCredited = fee
                  /\ IF b.recipientBalance > 0
                     THEN /\ frame'.to = stream.recipient
                          /\ frame'.amount = b.recipientBalance - fee
                          /\ frame'.owed = b.senderBalance
                     ELSE /\ frame'.to = stream.sender
                          /\ frame'.amount = b.senderBalance
                  /\ (stream.deposit = 3600 /\ stream.ratePerSecond = 1
                        /\ stream.remainingBalance = 3600 /\ platformFee = 10
                        /\ now = stream.startTime + 900) =>
                       /\ frame'.amount = 900
                       /\ frame'.owed = 2700
         /\ (frame # NoFrame /\ frame.op = "cancelStream" /\ frame.id = streamId
               /\ frame.then = "paySender" /\ frame' # frame
               /\ lastCall' # "reverted") =>
              /\ held' = held - frame.amount
              /\ UNCHANGED ledger
              /\ IF frame.owed > 0
                 THEN /\ frame'.to = streams[streamId].sender
                      /\ frame'.amount = frame.owed
                      /\ frame'.then = "done"
                 ELSE frame' = NoFrame]_vars

C3_Witness ==
    /\ frame.op = "cancelStream"
    /\ frame.then = "done"
    /\ frame.to = streams[frame.id].sender
    /\ frame.amount = 2700
    /\ saved.streams[frame.id].remainingBalance = 3600
    /\ now = streams[frame.id].startTime + 900
    /\ held = 2700

\* The streams as of the last committed transaction.
Committed == IF frame = NoFrame THEN streams ELSE saved.streams

\* C4: when a cancelStream returns, the stream is inactive with
\* remainingBalance 0; a stream that is inactive with remainingBalance 0 keeps
\* exactly that record in every later state, no caller passes the requires of
\* cancelStream or withdrawFromStream on it, and such a call reverts and
\* leaves the ledger and the value held unchanged.
C4_CancelledForGood ==
    [][\A streamId \in StreamIds :
         /\ (frame.op = "cancelStream" /\ frame.id = streamId /\ frame' = NoFrame
               /\ lastCall' = "returned") =>
              /\ ~streams'[streamId].active
              /\ streams'[streamId].remainingBalance = 0
         /\ (Committed[streamId].id # 0 /\ ~Committed[streamId].active
               /\ Committed[streamId].remainingBalance = 0) =>
              /\ streams'[streamId] = Committed[streamId]
              /\ \A caller \in Accounts :
                    /\ ~cancelStreamOk(streamId, caller)
                    /\ ~withdrawFromStreamOk(streamId, caller)
                    /\ (cancelStream(streamId, caller)
                          \/ withdrawFromStream(streamId, caller)) =>
                         /\ lastCall' = "reverted"
                         /\ UNCHANGED <<ledger, held, frame>>]_vars

\* A stream cancelled at its start time, and a call reverted since.
C4_Witness ==
    \E streamId \in StreamIds :
        /\ Exists(streamId)
        /\ ~streams[streamId].active
        /\ streams[streamId].remainingBalance = 0
        /\ now = streams[streamId].startTime
        /\ frame = NoFrame
        /\ lastCall = "reverted"

\* C5: in every settlement the fee credited to the platform account is
\* floor(gross * platformFee / 10000) at the fee rate current at the call and
\* the amount paid out plus the fee is the gross amount: the gross amount of a
\* withdrawFromStream is what remainingBalance decreases by, that of a
\* cancelStream is the recipient's share, that of a subscription settlement
\* is what the subscriber's balance is debited.
C5_FeeIsFloorOfGross ==
    [][/\ \A streamId \in StreamIds :
            /\ Starts("withdrawFromStream", streamId) =>
                 LET gross == streams[streamId].remainingBalance
                                  - streams'[streamId].remainingBalance
                 IN  /\ gross = balanceOf(streams[streamId], now).recipientBalance
                     /\ FeeCredited = (gross * platformFee) \div 10000
                     /\ frame'.amount + FeeCredited = gross
                     /\ frame'.to = streams[streamId].recipient
            /\ (Starts("cancelStream", streamId) /\ frame'.then = "paySender") =>
                 LET gross == balanceOf(streams[streamId], now).recipientBalance
                 IN  /\ FeeCredited = (gross * platformFee) \div 10000
                     /\ frame'.amount + FeeCredited = gross
                     /\ frame'.to = streams[streamId].recipient
       /\ \A subscriptionId \in SubscriptionIds :
            (Starts("processSubscriptionPayment", subscriptionId)
               \/ Starts("cancelSubscription", subscriptionId)) =>
                 LET sub == subscriptions[subscriptionId]
                     gross == balances[sub.subscriber] - balances'[sub.subscriber]
                 IN  /\ sub.subscriber # Owner
                     /\ gross = (now - sub.lastPaymentTime) * sub.ratePerSecond
                     /\ FeeCredited = (gross * platformFee) \div 10000
                     /\ frame'.amount + FeeCredited = gross
                     /\ frame'.to = sub.provider]_vars

\* A final settlement of 15 at 1000 basis points: fee 1, rounded down from 1.5.
C5_Witness ==
    /\ frame.op = "cancelSubscription"
    /\ saved.platformFee = 1000
    /\ frame.amount = 14
    /\ balances[Owner] = saved.balances[Owner] + 1

\* C6: whenever, between transactions, a stream is active and balanceOf
\* reports a positive recipientBalance, withdrawFromStream called by the
\* recipient passes every require and arithmetic check.
C6_WithdrawAnytime ==
    \A streamId \in StreamIds :
        (frame = NoFrame /\ streams[streamId].active
           /\ balanceOf(streams[streamId], now).recipientBalance > 0) =>
            withdrawFromStreamOk(streamId, streams[streamId].recipient)

\* How far past stopTime balanceOf is evaluated.
PastStop == 0 .. MaxTime + 1

\* C7: for an active stream, balanceOf at any time at or after stopTime is
\* (remainingBalance, 0); a withdrawFromStream at such a time takes exactly
\* remainingBalance, which is at most the deposit, and leaves the stream
\* inactive with remainingBalance 0.
C7_FullyVestedAfterStop ==
    [][\A streamId \in StreamIds :
         LET stream == streams[streamId]
         IN  /\ stream.active =>
                  \A past \in PastStop :
                     balanceOf(stream, stream.stopTime + past)
                        = [recipientBalance |-> stream.remainingBalance,
                           senderBalance |-> 0]
             /\ (Starts("withdrawFromStream", streamId) /\ now >= stream.stopTime) =>
                  /\ frame'.amount + FeeCredited = stream.remainingBalance
                  /\ stream.remainingBalance <= stream.deposit
                  /\ streams'[streamId].remainingBalance = 0
                  /\ ~streams'[streamId].active]_vars

\* A withdrawal after stopTime of what an earlier withdrawal left.
C7_Witness ==
    /\ frame.op = "withdrawFromStream"
    /\ now > streams[frame.id].stopTime
    /\ saved.streams[frame.id].remainingBalance < streams[frame.id].deposit
    /\ saved.streams[frame.id].remainingBalance > 0
    /\ streams[frame.id].remainingBalance = 0
    /\ ~streams[frame.id].active

\* C8: from one committed state to the next, a stream goes from active to
\* inactive only by a cancelStream or by a withdrawFromStream made at or after
\* its stopTime, and a stream that is inactive stays inactive.
C8_DeactivatedOnlyByCancelOrAtStop ==
    [][\A streamId \in StreamIds :
         LET before == Committed[streamId]
             after == (IF frame' = NoFrame THEN streams' ELSE saved'.streams)[streamId]
         IN  /\ (before.active /\ ~after.active) =>
                  /\ frame.id = streamId
                  /\ \/ frame.op = "cancelStream"
                     \/ frame.op = "withdrawFromStream" /\ now >= before.stopTime
             /\ (before.id # 0 /\ ~before.active) => ~after.active]_vars

\* C9: nothing is written to the ledger after a transfer: the step in which
\* a transfer returns changes no entity record and no balance entry.
C9_NoWriteAfterTransfer ==
    [][TransferReturns => UNCHANGED ledger]_vars

\* C10: a call made while a transfer is in progress reverts and changes
\* neither the ledger nor the value held.
C10_ReentrantCallsRevert ==
    [][(frame # NoFrame /\ frame' = frame) =>
          (lastCall' = "reverted" /\ UNCHANGED <<ledger, held>>)]_vars

\* The step is a rejection: the call reverted and nothing was written.
Rejected == lastCall' = "reverted" /\ UNCHANGED <<ledger, held, frame>>

\* C11: a call that fails a precondition (unauthorized caller, zero or self
\* counterparty, zero duration or rate, insufficient funding supplied, entity
\* that does not exist or is inactive, nothing to withdraw, insufficient
\* subscriber balance, fee above the ceiling) is rejected and leaves streams,
\* subscriptions, id counters, index lists, balances and the fee rate as they
\* were; a transaction undone at a transfer leaves them as they were before it.
C11_RejectedCallsChangeNothing ==
    [][\/ Rejected
       \/ /\ \A caller \in Accounts :
               /\ \A a \in StreamArgs :
                    (a[1] = ZeroAddress \/ a[1] = caller \/ a[2] = 0 \/ a[3] = 0
                       \/ a[4] < 0)
                      => ~createStream(caller, a[1], a[2], a[3], a[3] * a[2] + a[4])
               /\ \A a \in SubscriptionArgs :
                    (a[1] = ZeroAddress \/ a[1] = caller \/ a[2] = 0 \/ a[3] = 0)
                      => ~createSubscription(caller, a[1], a[2], a[3])
               /\ \A streamId \in StreamIds :
                    LET stream == streams[streamId]
                    IN  /\ (stream.id = 0 \/ ~stream.active
                              \/ stream.recipient # caller
                              \/ balanceOf(stream, now).recipientBalance = 0)
                             => ~withdrawFromStream(streamId, caller)
                        /\ (stream.id = 0 \/ ~stream.active
                              \/ (stream.sender # caller /\ stream.recipient # caller))
                             => ~cancelStream(streamId, caller)
               /\ \A subscriptionId \in SubscriptionIds :
                    LET sub == subscriptions[subscriptionId]
                    IN  /\ (sub.id = 0 \/ ~sub.active
                              \/ balances[sub.subscriber]
                                    < (now - sub.lastPaymentTime) * sub.ratePerSecond)
                             => ~processSubscriptionPayment(subscriptionId, caller)
                        /\ (sub.id = 0 \/ ~sub.active
                              \/ (sub.subscriber # caller /\ sub.provider # caller))
                             => ~cancelSubscription(subscriptionId, caller)
                        /\ \A value \in TopUpValues :
                             (sub.id = 0 \/ ~sub.active \/ sub.subscriber # caller
                                \/ value = 0)
                               => ~topUpSubscription(subscriptionId, caller, value)
               /\ balances[caller] = 0 => ~withdraw(caller)
               /\ \A newFee \in FeeValues :
                    (caller # Owner \/ newFee > 1000)
                      => ~setPlatformFee(caller, newFee)
          /\ (frame # NoFrame /\ frame' = NoFrame /\ lastCall' = "reverted") =>
               /\ <<streams', subscriptions', userStreams', recipientStreams',
                     userSubscriptions', balances', nextStreamId',
                     nextSubscriptionId', platformFee'>>
                    = <<saved.streams, saved.subscriptions, saved.userStreams,
                        saved.recipientStreams, saved.userSubscriptions,
                        saved.balances, saved.nextStreamId, saved.nextSubscriptionId,
                        saved.platformFee>>
               /\ held' = saved.held]_vars

\* A rejected call in a state with an active stream, an active subscription
\* with funds, and the fee rate changed from its initial value.
C11_Witness ==
    /\ frame = NoFrame
    /\ lastCall = "reverted"
    /\ \E streamId \in StreamIds : streams[streamId].active
    /\ \E subscriptionId \in SubscriptionIds :
          /\ subscriptions[subscriptionId].active
          /\ balances[subscriptions[subscriptionId].subscriber] > 0
    /\ platformFee # InitialFee

\* C12: withdrawFromStream goes through only for the stream's recipient,
\* cancelStream only for its sender or recipient, cancelSubscription only for
\* the subscription's subscriber or provider, topUpSubscription only for the
\* subscriber, setPlatformFee only for the owner; the same call by any other
\* account is rejected: a step that is not a rejection is not the step of
\* such a call.
C12_AuthorizationMatrix ==
    [][\/ Rejected
       \/ /\ \A streamId \in StreamIds :
               LET stream == streams[streamId]
               IN  /\ Starts("withdrawFromStream", streamId) =>
                        frame'.caller = stream.recipient
                   /\ Starts("cancelStream", streamId) =>
                        frame'.caller \in {stream.sender, stream.recipient}
                   /\ \A caller \in Accounts \ {stream.recipient} :
                        ~withdrawFromStream(streamId, caller)
                   /\ \A caller \in Accounts \ {stream.sender, stream.recipient} :
                        ~cancelStream(streamId, caller)
          /\ \A subscriptionId \in SubscriptionIds :
               LET sub == subscriptions[subscriptionId]
               IN  /\ Starts("cancelSubscription", subscriptionId) =>
                        frame'.caller \in {sub.subscriber, sub.provider}
                   /\ \A caller \in Accounts \ {sub.subscriber, sub.provider} :
                        ~cancelSubscription(subscriptionId, caller)
                   /\ \A caller \in Accounts \ {sub.subscriber},
                         value \in TopUpValues :
                        ~topUpSubscription(subscriptionId, caller, value)
          /\ \A caller \in Accounts \ {Owner}, newFee \in FeeValues :
               ~setPlatformFee(caller, newFee)
          /\ platformFee' # platformFee =>
               \/ frame' = NoFrame /\ lastCall' = "reverted"
               \/ Owner \in Callers(Accounts)]_vars

\* A cancelSubscription called by the provider is under way, a stream has
\* been cancelled, and the owner has changed the fee rate.
C12_Witness ==
    /\ frame.op = "cancelSubscription"
    /\ frame.caller = subscriptions[frame.id].provider
    /\ \E streamId \in StreamIds : Exists(streamId) /\ ~streams[streamId].active
    /\ platformFee = MaxFee

\* C13: a processSubscriptionPayment on an active subscription whose
\* subscriber's balance is less than (now - lastPaymentTime) * ratePerSecond
\* is rejected, leaving lastPaymentTime and the balance as they were (a step
\* that is not a rejection is not the step of such a call); a top-up changes
\* no subscription record; lastPaymentTime changes only when a payment
\* completes, to the time of that payment; so every payment that goes
\* through, after a top-up too, debits (now - lastPaymentTime) *
\* ratePerSecond counted from the last completed payment.
C13_UnpaidIntervalKept ==
    [][\/ Rejected
       \/ /\ subscriptions' # subscriptions =>
               \A subscriptionId \in SubscriptionIds, caller \in Accounts,
                  value \in TopUpValues :
                   ~topUpSubscription(subscriptionId, caller, value)
          /\ \A subscriptionId \in SubscriptionIds :
               LET sub == subscriptions[subscriptionId]
                   payment == (now - sub.lastPaymentTime) * sub.ratePerSecond
               IN  /\ (sub.active /\ balances[sub.subscriber] < payment) =>
                        \A caller \in Accounts :
                           ~processSubscriptionPayment(subscriptionId, caller)
                   /\ Starts("processSubscriptionPayment", subscriptionId) =>
                        /\ balances[sub.subscriber] >= payment
                        /\ balances'[sub.subscriber]
                              = balances[sub.subscriber] - payment
                   /\ (sub.id # 0
                         /\ subscriptions'[subscriptionId].lastPaymentTime
                               # sub.lastPaymentTime) =>
                        /\ frame.op = "processSubscriptionPayment"
                        /\ frame.id = subscriptionId
                        /\ frame' = NoFrame
                        /\ lastCall' = "returned"
                        /\ subscriptions'[subscriptionId].lastPaymentTime = now]_vars

\* The only subscription, funded with 10 at rate 5, is paid for 3 seconds at
\* once, 15, out of a balance that a top-up brought to 20.
C13_Witness ==
    /\ frame.op = "processSubscriptionPayment"
    /\ nextSubscriptionId = 2
    /\ now - subscriptions[frame.id].lastPaymentTime = 3
    /\ saved.balances[subscriptions[frame.id].subscriber] = 20
    /\ balances[subscriptions[frame.id].subscriber] = 5

\* C14: for the only subscription there is, at rate 5, between transactions:
\* with the subscriber's balance at 100 and 10 seconds since lastPaymentTime,
\* processSubscriptionPayment passes its requires and debits 50; with the
\* balance at 50 and 9 seconds elapsed it passes and debits 45, leaving 5;
\* with the balance at 5 and more than 5 accrued it is rejected; after a
\* top-up of 10, with 2 seconds elapsed, it passes again.
C14_ExampleSettlements ==
    [][\A subscriptionId \in SubscriptionIds :
         LET sub == subscriptions[subscriptionId]
             balance == balances[sub.subscriber]
             elapsed == now - sub.lastPaymentTime
         IN  (frame = NoFrame /\ nextSubscriptionId = 2 /\ sub.active
                /\ sub.ratePerSecond = 5) =>
               /\ (balance = 100 /\ elapsed = 10) =>
                    /\ processSubscriptionPaymentOk(subscriptionId)
                    /\ held >= 50
                    /\ Starts("processSubscriptionPayment", subscriptionId) =>
                         balances'[sub.subscriber] = 50
               /\ (balance = 50 /\ elapsed = 9) =>
                    /\ processSubscriptionPaymentOk(subscriptionId)
                    /\ held >= 45
                    /\ Starts("processSubscriptionPayment", subscriptionId) =>
                         balances'[sub.subscriber] = 5
               /\ (balance = 5 /\ elapsed * 5 > 5) =>
                    /\ ~processSubscriptionPaymentOk(subscriptionId)
                    /\ \/ Rejected
                       \/ \A caller \in Accounts :
                             ~processSubscriptionPayment(subscriptionId, caller)
               /\ (balance = 15 /\ elapsed = 2) =>
                    processSubscriptionPaymentOk(subscriptionId)]_vars

\* The second settlement of the example is under way: 45 debited for the 9
\* seconds since the first settlement at 10, 5 left.
C14_Witness ==
    /\ frame.op = "processSubscriptionPayment"
    /\ nextSubscriptionId = 2
    /\ now = 19
    /\ subscriptions[frame.id].lastPaymentTime = 10
    /\ saved.balances[subscriptions[frame.id].subscriber] = 50
    /\ balances[subscriptions[frame.id].subscriber] = 5

\* C15: between transactions, for every active subscription, cancelSubscription
\* called by the subscriber or the provider passes its requires; a
\* cancelSubscription that has started ends by returning, with the
\* subscription inactive; and when the subscriber's balance is zero or less
\* than the accrued payment the call returns at once, with the subscription
\* inactive and every balance entry as it was.
C15_CancelAlwaysPossible ==
    [][\A subscriptionId \in SubscriptionIds :
         LET sub == subscriptions[subscriptionId]
             payment == (now - sub.lastPaymentTime) * sub.ratePerSecond
         IN  /\ (frame = NoFrame /\ sub.active) =>
                  /\ cancelSubscriptionOk(subscriptionId, sub.subscriber)
                  /\ cancelSubscriptionOk(subscriptionId, sub.provider)
                  /\ (balances[sub.subscriber] = 0
                        \/ balances[sub.subscriber] < payment) =>
                       \A caller \in {sub.subscriber, sub.provider} :
                          cancelSubscription(subscriptionId, caller) =>
                             /\ lastCall' = "returned"
                             /\ ~subscriptions'[subscriptionId].active
                             /\ balances' = balances
             /\ (frame.op = "cancelSubscription" /\ frame.id = subscriptionId
                   /\ frame' = NoFrame) =>
                  /\ lastCall' = "returned"
                  /\ ~subscriptions'[subscriptionId].active]_vars

\* C16: whenever a processSubscriptionPayment on an active subscription goes
\* through for one caller, the debit, the fee credited and the payment to
\* the provider are fixed by the subscription, the balances, the fee rate
\* and the time alone, and the same call with the same result is open to
\* every account, the accounts that are neither subscriber, provider nor
\* owner included; where a call is rejected and the subscriber's balance is
\* less than the payment, the settlement goes through for no account.
C16_AnyoneCanSettle ==
    [][\A subscriptionId \in SubscriptionIds :
         LET sub == subscriptions[subscriptionId]
             payment == (now - sub.lastPaymentTime) * sub.ratePerSecond
             fee == (payment * platformFee) \div 10000
             debited == [balances EXCEPT ![sub.subscriber] = @ - payment]
             after == [debited EXCEPT ![Owner] = @ + fee]
         IN  /\ Starts("processSubscriptionPayment", subscriptionId) =>
                  /\ sub.active
                  /\ balances' = after
                  /\ frame'.to = sub.provider
                  /\ frame'.amount = payment - fee
                  /\ UNCHANGED <<streams, subscriptions, userStreams,
                                 recipientStreams, userSubscriptions, nextStreamId,
                                 nextSubscriptionId, platformFee, held, now>>
                  /\ \A caller \in Accounts :
                       ENABLED (/\ processSubscriptionPayment(subscriptionId, caller)
                                /\ frame'.caller = caller
                                /\ frame'.to = sub.provider
                                /\ frame'.amount = payment - fee
                                /\ balances' = after)
             /\ (frame = NoFrame /\ sub.active /\ balances[sub.subscriber] < payment
                   /\ Rejected) =>
                  \A caller \in Accounts :
                     ~ENABLED (/\ processSubscriptionPayment(subscriptionId, caller)
                               /\ frame' # NoFrame)]_vars

\* A settlement called by an account that is neither the subscriber, the
\* provider nor the owner is under way.
C16_Witness ==
    /\ frame.op = "processSubscriptionPayment"
    /\ frame.caller \notin {subscriptions[frame.id].subscriber,
                             subscriptions[frame.id].provider, Owner}
    /\ frame.amount > 0

\* C17: a settlement of subscription A draws on the one balance entry of its
\* subscriber: it debits that entry (now - lastPaymentTime) * ratePerSecond
\* of A, and if what is left is less than what has accrued on another active
\* subscription B of the same subscriber, B fails the balance check of
\* processSubscriptionPayment once A's settlement has started and still does
\* when it has returned, even where B passed it before A was settled.
C17_SharedFloat ==
    [][\A A \in SubscriptionIds, B \in SubscriptionIds :
         LET subA == subscriptions[A]
             subB == subscriptions[B]
             subscriber == subA.subscriber
             dueB == (now - subB.lastPaymentTime) * subB.ratePerSecond
         IN  (A # B /\ subA.active /\ subB.active
                /\ subB.subscriber = subscriber) =>
               /\ Starts("processSubscriptionPayment", A) =>
                    /\ balances'[subscriber]
                          = balances[subscriber]
                              - (now - subA.lastPaymentTime) * subA.ratePerSecond
                    /\ balances'[subscriber] < dueB =>
                          ~processSubscriptionPaymentOk(B)'
               /\ (frame.op = "processSubscriptionPayment" /\ frame.id = A
                     /\ frame' = NoFrame /\ lastCall' = "returned"
                     /\ balances[subscriber] < dueB) =>
                    ~processSubscriptionPaymentOk(B)']_vars

\* A is being settled, and what is left of the subscriber's balance no
\* longer covers what has accrued on B, which the balance before did cover.
C17_Witness ==
    \E B \in SubscriptionIds :
        LET subB == subscriptions[B]
            dueB == (now - subB.lastPaymentTime) * subB.ratePerSecond
        IN  /\ frame.op = "processSubscriptionPayment"
            /\ B # frame.id
            /\ subB.active
            /\ subscriptions[frame.id].active
            /\ subB.subscriber = subscriptions[frame.id].subscriber
            /\ dueB <= saved.balances[subB.subscriber]
            /\ dueB > balances[subB.subscriber]

\* C18: a withdraw that goes through pays its caller exactly the caller's
\* balance entry, which is positive, and sets that entry to 0, leaving every
\* other entry, every stream, every subscription, the counters, the index
\* lists and the fee rate as they were, so that withdraw fails its require
\* for the same caller in the state that follows; when the payment has been
\* made the value held is less by the amount and nothing else has changed;
\* a withdraw by a caller whose entry is 0 is rejected.
C18_WithdrawPaysWholeEntry ==
    [][/\ Starts("withdraw", 0) =>
            LET caller == frame'.caller
            IN  /\ balances[caller] > 0
                /\ frame'.to = caller
                /\ frame'.amount = balances[caller]
                /\ balances' = [balances EXCEPT ![caller] = 0]
                /\ UNCHANGED <<streams, subscriptions, userStreams,
                               recipientStreams, userSubscriptions, nextStreamId,
                               nextSubscriptionId, platformFee, held>>
                /\ \A again \in Accounts : again = caller => ~withdrawOk(again)'
       /\ (frame.op = "withdraw" /\ frame' = NoFrame /\ lastCall' = "returned") =>
            /\ held' = held - frame.amount
            /\ UNCHANGED ledger
       /\ \/ Rejected
          \/ \A caller \in Accounts : balances[caller] = 0 => ~withdraw(caller)]_vars

\* A withdraw is under way that pays the caller's whole entry, now 0, while
\* another account has a balance and a subscription is active.
C18_Witness ==
    /\ frame.op = "withdraw"
    /\ frame.to = frame.caller
    /\ frame.amount = saved.balances[frame.caller]
    /\ frame.amount > 0
    /\ balances[frame.caller] = 0
    /\ \E other \in Accounts \ {frame.caller} : balances[other] > 0
    /\ \E subscriptionId \in SubscriptionIds : subscriptions[subscriptionId].active

\* Fee rates tried against the ceiling.
FeeProbes == {0, 1, 100, 999, 1000, 1001, 1002, MaxUint}

\* C19: setPlatformFee called by the owner passes its requires for every new
\* rate up to 1000, 1000 included, and fails them for every rate above 1000;
\* such a call of the owner sets the rate when it passes and is rejected
\* when it fails; the fee rate is at most 1000 in every state.
C19_FeeCeiling ==
    [][/\ \A newFee \in FeeProbes :
            setPlatformFeeOk(Owner, newFee) <=> newFee <= 1000
       /\ \A newFee \in FeeValues :
            setPlatformFee(Owner, newFee) =>
               IF newFee <= 1000
               THEN platformFee' = newFee /\ lastCall' = "returned"
               ELSE Rejected
       /\ platformFee <= 1000
       /\ platformFee' <= 1000]_vars

\* The owner has set the fee rate to exactly 1000.
C19_Witness ==
    /\ platformFee = 1000
    /\ platformFee # InitialFee
    /\ frame = NoFrame
    /\ lastCall = "returned"

\* C20: the fee rate is at most 100 basis points in every state.
C20_FeeAtMostOnePercent == platformFee <= 100

\* C21: a createStream that goes through, with arguments (recipient,
\* duration, rate) and value supplied, stores under the next id a stream with
\* that sender and recipient, deposit = rate * duration, remainingBalance =
\* deposit, startTime = now, stopTime = now + duration, active; it changes no
\* other stream, no subscription and no balance entry; the value held rises
\* by the value supplied and, when that exceeds the deposit, a refund of
\* exactly the excess to the sender is under way, after which the value held
\* is up by exactly the deposit and nothing else has changed.
C21_CreateStreamEffect ==
    [][/\ nextStreamId' = nextStreamId + 1 =>
            \E caller \in Accounts, a \in StreamArgs :
                LET streamId == nextStreamId
                    deposit == a[3] * a[2]
                    value == deposit + a[4]
                IN  /\ createStream(caller, a[1], a[2], a[3], value)
                    /\ value >= deposit
                    /\ streams'[streamId] =
                          [id |-> streamId, sender |-> caller, recipient |-> a[1],
                           deposit |-> deposit, ratePerSecond |-> a[3],
                           startTime |-> now, stopTime |-> now + a[2],
                           remainingBalance |-> deposit, active |-> TRUE]
                    /\ \A other \in StreamIds \ {streamId} :
                          streams'[other] = streams[other]
                    /\ UNCHANGED <<subscriptions, balances>>
                    /\ held' = held + value
                    /\ IF value > deposit
                       THEN /\ frame'.op = "createStream"
                            /\ frame'.to = caller
                            /\ frame'.amount = value - deposit
                            /\ frame'.then = "done"
                       ELSE frame' = frame /\ lastCall' = "returned"
       /\ (frame.op = "createStream" /\ frame' = NoFrame
             /\ lastCall' = "returned") =>
            /\ held' = saved.held + streams[frame.id].deposit
            /\ UNCHANGED ledger]_vars

\* The refund of an excess of 1 on the creation of a second stream is under
\* way, the first stream being partly withdrawn.
C21_Witness ==
    /\ frame.op = "createStream"
    /\ frame.amount = 1
    /\ held = saved.held + streams[frame.id].deposit + 1
    /\ streams[frame.id].active
    /\ \E other \in StreamIds \ {frame.id} :
          /\ streams[other].active
          /\ streams[other].remainingBalance < streams[other].deposit

\* The step undoes the transaction in progress.
Undone == frame # NoFrame /\ frame' = NoFrame /\ lastCall' = "reverted"

\* C22: each counter starts at 1; the streams stored are exactly those under
\* the ids below nextStreamId, each under its own id, and likewise the
\* subscriptions; a counter changes only in a creation of its kind that goes
\* through, which stores the new entity under the counter's value, an id not
\* in use, and advances the counter by one, or when a transaction is undone,
\* which puts the counter back to its value before that transaction; a
\* stored entity's id never changes.
C22_IdsFromCounters ==
    [][/\ nextStreamId >= 1 /\ nextSubscriptionId >= 1
       /\ \A i \in StreamIds :
            /\ IF i < nextStreamId THEN streams[i].id = i ELSE streams[i] = NoStream
            /\ (streams[i].id # 0 /\ ~Undone) => streams'[i].id = i
       /\ \A i \in SubscriptionIds :
            /\ IF i < nextSubscriptionId
               THEN subscriptions[i].id = i
               ELSE subscriptions[i] = NoSubscription
            /\ (subscriptions[i].id # 0 /\ ~Undone) => subscriptions'[i].id = i
       /\ nextStreamId' # nextStreamId =>
            \/ /\ nextStreamId' = nextStreamId + 1
               /\ streams[nextStreamId] = NoStream
               /\ streams'[nextStreamId].id = nextStreamId
               /\ \E caller \in Accounts, a \in StreamArgs :
                     createStream(caller, a[1], a[2], a[3], a[3] * a[2] + a[4])
            \/ Undone /\ nextStreamId' = saved.nextStreamId
       /\ nextSubscriptionId' # nextSubscriptionId =>
            \/ /\ nextSubscriptionId' = nextSubscriptionId + 1
               /\ subscriptions[nextSubscriptionId] = NoSubscription
               /\ subscriptions'[nextSubscriptionId].id = nextSubscriptionId
               /\ \E caller \in Accounts, a \in SubscriptionArgs :
                     createSubscription(caller, a[1], a[2], a[3])
            \/ Undone /\ nextSubscriptionId' = saved.nextSubscriptionId
       /\ Rejected => UNCHANGED <<nextStreamId, nextSubscriptionId>>]_vars

\* Two streams created, under ids 1 and 2, and a call rejected since.
C22_Witness ==
    /\ nextStreamId = 3
    /\ streams[1].id = 1
    /\ streams[2].id = 2
    /\ frame = NoFrame
    /\ lastCall = "reverted"

\* The times of the stream example.
ExampleTimes == {k * Example.step : k \in 0 .. ExampleSteps}

\* C23: for every active stream, between transactions, taking its record as
\* it is, the recipientBalance that balanceOf reports does not decrease and
\* the senderBalance does not increase as the time goes from now onward.
C23_AccrualMonotone ==
    \A streamId \in StreamIds :
        (frame = NoFrame /\ streams[streamId].active) =>
            \A t1 \in ExampleTimes, t2 \in ExampleTimes :
                (now <= t1 /\ t1 <= t2) =>
                    /\ balanceOf(streams[streamId], t1).recipientBalance
                          <= balanceOf(streams[streamId], t2).recipientBalance
                    /\ balanceOf(streams[streamId], t1).senderBalance
                          >= balanceOf(streams[streamId], t2).senderBalance

\* C24: a subscription goes from active to inactive only in a
\* cancelSubscription on it that goes through; the steps of
\* processSubscriptionPayment, topUpSubscription and withdraw, rejected or
\* not, leave the flag as it is; a subscription that is inactive stays
\* inactive, and no cancelSubscription, processSubscriptionPayment or
\* topUpSubscription on it goes through, for any account that can be the
\* caller.
C24_InactiveOnlyByCancel ==
    [][/\ \A subscriptionId \in SubscriptionIds :
            LET sub == subscriptions[subscriptionId]
            IN  /\ (sub.active /\ ~subscriptions'[subscriptionId].active) =>
                     /\ lastCall' = "returned"
                     /\ frame' = NoFrame
                     /\ IF frame = NoFrame
                        THEN \E caller \in {sub.subscriber, sub.provider} :
                                cancelSubscription(subscriptionId, caller)
                        ELSE /\ frame.op = "cancelSubscription"
                             /\ frame.id = subscriptionId
                /\ (sub.id # 0 /\ ~sub.active) =>
                     ~subscriptions'[subscriptionId].active
       /\ (frame.op \in {"processSubscriptionPayment", "withdraw"}
             \/ frame'.op \in {"processSubscriptionPayment", "withdraw"}) =>
            \A subscriptionId \in SubscriptionIds :
               subscriptions'[subscriptionId].active
                  = subscriptions[subscriptionId].active
       /\ \/ Rejected
          \/ \A subscriptionId \in SubscriptionIds :
                (subscriptions[subscriptionId].id # 0
                   /\ ~subscriptions[subscriptionId].active) =>
                  \A caller \in Callers(Accounts) :
                     /\ ~cancelSubscription(subscriptionId, caller)
                     /\ ~processSubscriptionPayment(subscriptionId, caller)
                     /\ \A value \in TopUpValues :
                           ~topUpSubscription(subscriptionId, caller, value)]_vars

\* A subscription cancelled while its subscriber still has a balance, and a
\* call rejected since.
C24_Witness ==
    \E subscriptionId \in SubscriptionIds :
        /\ subscriptions[subscriptionId].id # 0
        /\ ~subscriptions[subscriptionId].active
        /\ balances[subscriptions[subscriptionId].subscriber] > 0
        /\ frame = NoFrame
        /\ lastCall = "reverted"

\* The streams as of the last committed transaction, after the step.
CommittedNext == IF frame' = NoFrame THEN streams' ELSE saved'.streams

\* C25: every stored stream has remainingBalance at most its deposit, sender
\* and recipient distinct, ratePerSecond positive and stopTime after
\* startTime; from one committed state to the next a stream's
\* remainingBalance does not increase and its id, sender, recipient, deposit,
\* ratePerSecond, startTime and stopTime do not change.
C25_StreamFieldsFixed ==
    [][\A streamId \in StreamIds :
         LET stream == streams[streamId]
             before == Committed[streamId]
             after == CommittedNext[streamId]
         IN  /\ stream.id # 0 =>
                  /\ stream.remainingBalance <= stream.deposit
                  /\ stream.remainingBalance >= 0
                  /\ stream.sender # stream.recipient
                  /\ stream.ratePerSecond > 0
                  /\ stream.stopTime > stream.startTime
             /\ before.id # 0 =>
                  /\ after.remainingBalance <= before.remainingBalance
                  /\ after.id = before.id
                  /\ after.sender = before.sender
                  /\ after.recipient = before.recipient
                  /\ after.deposit = before.deposit
                  /\ after.ratePerSecond = before.ratePerSecond
                  /\ after.startTime = before.startTime
                  /\ after.stopTime = before.stopTime]_vars

\* A withdrawal of part of a stream's deposit has been committed.
C25_Witness ==
    \E streamId \in StreamIds :
        /\ frame = NoFrame
        /\ streams[streamId].active
        /\ streams[streamId].remainingBalance > 0
        /\ streams[streamId].remainingBalance < streams[streamId].deposit
        /\ now > streams[streamId].startTime

\* How many times id occurs in list.
Occurrences(list, id) == Cardinality({k \in 1 .. Len(list) : list[k] = id})

\* The ids of list are in increasing order.
Increasing(list) == \A k \in 1 .. Len(list) - 1 : list[k] < list[k + 1]

\* old is what list began with.
Extends(list, old) ==
    /\ Len(list) >= Len(old)
    /\ \A k \in 1 .. Len(old) : list[k] = old[k]

\* C26: every stream stored occurs exactly once in the list of its sender,
\* exactly once in the list of its recipient and in no other account's
\* lists, and every subscription stored exactly once in the list of its
\* subscriber and in no other; each list is in increasing order of id; a
\* step that creates nothing and undoes nothing leaves every list as it is,
\* a creation extends lists at their end, and a transaction undone puts them
\* back as they were before it.
C26_IndexListsAppendOnly ==
    [][/\ \A a \in Addresses :
            /\ Increasing(userStreams[a])
            /\ Increasing(recipientStreams[a])
            /\ Increasing(userSubscriptions[a])
            /\ \A i \in StreamIds :
                 /\ Occurrences(userStreams[a], i)
                       = IF streams[i].id # 0 /\ streams[i].sender = a
                         THEN 1 ELSE 0
                 /\ Occurrences(recipientStreams[a], i)
                       = IF streams[i].id # 0 /\ streams[i].recipient = a
                         THEN 1 ELSE 0
            /\ \A i \in SubscriptionIds :
                 Occurrences(userSubscriptions[a], i)
                    = IF subscriptions[i].id # 0 /\ subscriptions[i].subscriber = a
                      THEN 1 ELSE 0
            /\ ~Undone =>
                 /\ Extends(userStreams'[a], userStreams[a])
                 /\ Extends(recipientStreams'[a], recipientStreams[a])
                 /\ Extends(userSubscriptions'[a], userSubscriptions[a])
       /\ (~Undone /\ nextStreamId' = nextStreamId
             /\ nextSubscriptionId' = nextSubscriptionId) =>
            UNCHANGED <<userStreams, recipientStreams, userSubscriptions>>
       /\ Undone =>
            /\ userStreams' = saved.userStreams
            /\ recipientStreams' = saved.recipientStreams
            /\ userSubscriptions' = saved.userSubscriptions]_vars

\* Two streams listed in creation order under their sender and their
\* recipient, the first one cancelled since.
C26_Witness ==
    /\ frame = NoFrame
    /\ userStreams["alice"] = <<1, 2>>
    /\ recipientStreams["bob"] = <<1, 2>>
    /\ ~streams[1].active
    /\ streams[2].active

\* C27: a withdrawFromStream that goes through lowers the stream's
\* remainingBalance by exactly the recipientBalance balanceOf reports at the
\* call, leaves the stream active unless now >= stopTime or the
\* remainingBalance left is 0, in which cases it deactivates it, and changes
\* nothing else of that stream, no other stream, no subscription, and no
\* balance entry but the owner's; when its payment has been made nothing
\* more of the ledger has changed.
C27_WithdrawFromStreamEffect ==
    [][\A streamId \in StreamIds :
         LET stream == streams[streamId]
             gross == balanceOf(stream, now).recipientBalance
             left == stream.remainingBalance - gross
         IN  /\ Starts("withdrawFromStream", streamId) =>
                  /\ stream.active
                  /\ streams'[streamId].remainingBalance = left
                  /\ streams'[streamId].active
                        = ~(now >= stream.stopTime \/ left = 0)
                  /\ streams' = [streams EXCEPT ![streamId] =
                        [stream EXCEPT !.remainingBalance = left,
                                       !.active = streams'[streamId].active]]
                  /\ subscriptions' = subscriptions
                  /\ \A a \in Addresses \ {Owner} : balances'[a] = balances[a]
             /\ (frame.op = "withdrawFromStream" /\ frame.id = streamId
                   /\ frame' = NoFrame /\ lastCall' = "returned") =>
                  UNCHANGED ledger]_vars

\* A withdrawal of part of a stream is under way while a subscription is
\* active and its subscriber has a balance.
C27_Witness ==
    /\ frame.op = "withdrawFromStream"
    /\ streams[frame.id].active
    /\ streams[frame.id].remainingBalance > 0
    /\ streams[frame.id].remainingBalance
          < saved.streams[frame.id].remainingBalance
    /\ \E subscriptionId \in SubscriptionIds :
          /\ subscriptions[subscriptionId].active
          /\ balances[subscriptions[subscriptionId].subscriber] > 0

\* C28: when a withdrawFromStream or a cancelStream has gone through, the
\* gross value the recipient has taken from the stream so far (what earlier
\* withdrawals took off the deposit, plus the recipientBalance of this call)
\* is at most min(now - startTime, stopTime - startTime) * ratePerSecond.
C28_NoDoublePayment ==
    [][\A streamId \in StreamIds :
         (/\ frame # NoFrame
          /\ frame.op \in {"withdrawFromStream", "cancelStream"}
          /\ frame.id = streamId
          /\ frame' = NoFrame
          /\ lastCall' = "returned") =>
             LET before == saved.streams[streamId]
                 elapsed == (IF now >= before.stopTime THEN before.stopTime
                             ELSE now) - before.startTime
                 earlier == before.deposit - before.remainingBalance
             IN  earlier + balanceOf(before, now).recipientBalance
                    <= elapsed * before.ratePerSecond]_vars

\* The sum of f over the finite set S of its arguments.
RECURSIVE SumOver(_, _)
SumOver(f, S) ==
    IF S = {} THEN 0
    ELSE LET x == CHOOSE y \in S : TRUE
         IN  f[x] + SumOver(f, S \ {x})

\* What the ledger owes: the remainingBalance of every stream and every
\* entry of the balance table.
Owed ==
    SumOver([streamId \in StreamIds |-> streams[streamId].remainingBalance],
            StreamIds)
      + SumOver(balances, DOMAIN balances)

\* C29: between transactions the value the contract holds is at least the
\* sum of the remainingBalance of all streams plus the sum of all entries of
\* the balance table.
C29_Solvent == frame = NoFrame => held >= Owed

\* C30: every stream that is not active has remainingBalance 0, and
\* balanceOf reports (0, 0) for it now and at every later time.
C30_InactiveStreamEmpty ==
    \A streamId \in StreamIds :
        ~streams[streamId].active =>
            /\ streams[streamId].remainingBalance = 0
            /\ \A t \in PastStop :
                  t >= now =>
                      /\ balanceOf(streams[streamId], t).recipientBalance = 0
                      /\ balanceOf(streams[streamId], t).senderBalance = 0

\* A withdrawal before stopTime has deactivated a stream, and another stored
\* stream is inactive too.
C30_Witness ==
    /\ frame.op = "withdrawFromStream"
    /\ saved.streams[frame.id].active
    /\ ~streams[frame.id].active
    /\ now < streams[frame.id].stopTime
    /\ \E streamId \in StreamIds \ {frame.id} :
          /\ streams[streamId].id # 0
          /\ ~streams[streamId].active

\* The fee a settlement of the stream would credit now.
StreamFeeDue(streamId) ==
    Fee(balanceOf(streams[streamId], now).recipientBalance, platformFee)

\* The fee a settlement of the subscription would credit now.
SubscriptionFeeDue(subscriptionId) ==
    Fee(pendingPayment(subscriptions[subscriptionId], now), platformFee)

\* C31: a setPlatformFee that passes its requires sets the fee rate and
\* changes no stream, subscription, index list, counter, balance entry or
\* value held; from that step on the fee due on what has accrued so far is
\* the one at the new rate, and every settlement that starts credits the
\* fee due at the rate of the state it starts in.
C31_SetPlatformFeeEffect ==
    [][/\ \A caller \in Callers(Accounts), newFee \in FeeValues :
            (setPlatformFeeOk(caller, newFee) /\ setPlatformFee(caller, newFee)) =>
                /\ platformFee' = newFee
                /\ UNCHANGED <<streams, subscriptions, userStreams,
                               recipientStreams, userSubscriptions, balances,
                               nextStreamId, nextSubscriptionId, held>>
                /\ \A streamId \in StreamIds :
                      StreamFeeDue(streamId)' =
                          Fee(balanceOf(streams[streamId], now).recipientBalance,
                              newFee)
                /\ \A subscriptionId \in SubscriptionIds :
                      SubscriptionFeeDue(subscriptionId)' =
                          Fee(pendingPayment(subscriptions[subscriptionId], now),
                              newFee)
       /\ (platformFee' # platformFee /\ ~Undone) =>
              /\ lastCall' = "returned"
              /\ \E caller \in Callers(Accounts) :
                    setPlatformFeeOk(caller, platformFee')
              /\ UNCHANGED <<streams, subscriptions, userStreams,
                             recipientStreams, userSubscriptions, balances,
                             nextStreamId, nextSubscriptionId, held>>
       /\ \A streamId \in StreamIds :
            (Starts("withdrawFromStream", streamId)
               \/ (Starts("cancelStream", streamId) /\ frame'.then = "paySender")) =>
                 FeeCredited = StreamFeeDue(streamId)
       /\ \A subscriptionId \in SubscriptionIds :
            (Starts("processSubscriptionPayment", subscriptionId)
               \/ Starts("cancelSubscription", subscriptionId)) =>
                 FeeCredited = SubscriptionFeeDue(subscriptionId)]_vars

\* The fee rate has been changed, fees have been credited, and a withdrawal
\* of 15 from a stream is under way: it credits 1, the fee at 1000 basis
\* points, where the initial rate gives 0.
C31_Witness ==
    /\ frame.op = "withdrawFromStream"
    /\ platformFee = 1000
    /\ platformFee # InitialFee
    /\ Fee(15, InitialFee) = 0
    /\ saved.balances[Owner] > 0
    /\ balances[Owner] = saved.balances[Owner] + 1

\* <<recipient, duration, ratePerSecond, msg.value - deposit>> around the
\* largest product the word holds, with msg.value within the word.
OverflowProbes ==
    {<<"bob", 1, MaxUint, 0>>, <<"bob", 1, MaxUint, -1>>,
     <<"bob", 2, (MaxUint + 1) \div 2, -(MaxUint + 1)>>,
     <<"bob", 2, (MaxUint + 1) \div 2, -1>>,
     <<"bob", 2, MaxUint, -MaxUint>>, <<"bob", 3, MaxUint, -(2 * MaxUint)>>}

\* C32: createStream is rejected, changing nothing, whenever ratePerSecond *
\* duration is 2^WordBits or more and whenever the value supplied is below
\* that product; with valid parties and within the horizon of the clock its
\* requires pass exactly when the product fits the word and the value
\* supplied covers it; every stream stored has as deposit the exact product
\* of its rate and its duration, which fits the word.
C32_OverflowRejected ==
    [][/\ \/ Rejected
          \/ \A caller \in Accounts, a \in StreamArgs \cup OverflowProbes :
                LET product == a[3] * a[2]
                    value == product + a[4]
                IN  (product >= 2 ^ WordBits \/ value < product) =>
                        ~createStream(caller, a[1], a[2], a[3], value)
       /\ \A a \in OverflowProbes :
             LET product == a[3] * a[2]
                 value == product + a[4]
             IN  /\ value \in 0 .. MaxUint
                 /\ now + a[2] <= MaxUint =>
                       (createStreamOk("alice", a[1], a[2], a[3], value)
                          <=> (product < 2 ^ WordBits /\ value >= product))
       /\ \A streamId \in StreamIds :
             LET stream == streams'[streamId]
             IN  stream.id # 0 =>
                   /\ stream.deposit
                         = stream.ratePerSecond * (stream.stopTime - stream.startTime)
                   /\ stream.deposit < 2 ^ WordBits]_vars

\* A call has been rejected with a stream stored, among the calls made being
\* one whose product overflows while the value supplied fits the word and
\* covers the wrapped product.
C32_Witness ==
    /\ frame = NoFrame
    /\ lastCall = "reverted"
    /\ streams[1].deposit = 30
    /\ \E a \in StreamArgs :
          LET product == a[3] * a[2]
              value == product + a[4]
          IN  /\ product >= 2 ^ WordBits
              /\ value \in 0 .. MaxUint
              /\ value >= product % (2 ^ WordBits)
              /\ ~createStreamOk("alice", a[1], a[2], a[3], value)

SettledIntervalsBilledOnce ==
    [][\A subscriptionId \in SubscriptionIds :
         LET sub == subscriptions[subscriptionId]
             after == subscriptions'[subscriptionId]
             completes == /\ frame # NoFrame
                          /\ frame.op = "processSubscriptionPayment"
                          /\ frame.id = subscriptionId
                          /\ frame' = NoFrame
                          /\ lastCall' = "returned"
         IN  /\ sub.id # 0 =>
                   /\ sub.lastPaymentTime <= now
                   /\ after.lastPaymentTime >= sub.lastPaymentTime
                   /\ (after.lastPaymentTime # sub.lastPaymentTime) => completes
             /\ (sub.id = 0 /\ after.id # 0) => after.lastPaymentTime = now
             /\ completes =>
                   /\ after.lastPaymentTime = now
                   /\ saved.balances[sub.subscriber] - balances'[sub.subscriber]
                         = (after.lastPaymentTime
                              - saved.subscriptions[subscriptionId].lastPaymentTime)
                              * sub.ratePerSecond]_vars

====
